---- MODULE Spec2Model ----
(***************************************************************************)
(* Team / member directory of src/app.py: the two tables (Team, Member),   *)
(* the CRUD handlers, the paginated GitHub fetch and the one-transaction   *)
(* import sync_github.                                                     *)
(*                                                                         *)
(* Strings are sequences of characters (one-character TLA+ strings, plus   *)
(* a few multi-character tokens that the code only ever copies or tests    *)
(* as a whole).  Python's None is the value None below, which no request   *)
(* or remote payload uses as a string.  The database is the record         *)
(* db = [teams, members]; each table is a function from the primary keys   *)
(* in use to the row.  Team.created_at is left out: no handler reads or    *)
(* rewrites it.  The unique index on Team.name is left out of the          *)
(* handlers: each looks the name up before it writes, so the index is      *)
(* never the one to refuse (TeamNamesUnique).                              *)
(***************************************************************************)
EXTENDS Integers, Sequences, FiniteSets, TLC

VARIABLES
    db,      \* the committed content of the tables teams and members
    config,  \* app.config["GITHUB_ORG"]
    last,    \* the last handler that ran and what it returned
    pg       \* the locals of one running github_paginated_get (SpecPg)

vars == <<db, config, last, pg>>

(***************************************************************************)
(* Bounds of the model.                                                    *)
(***************************************************************************)
MaxTeams == 2          \* primary keys of teams range over 1..MaxTeams
MaxMembers == 2        \* primary keys of members range over 1..MaxMembers
MaxRemoteTeams == 2    \* team payloads in one remote team listing
MaxPages == 3          \* pages of one remote listing (SpecPg)
MaxRequests == 5       \* requests one paginated fetch may make (SpecPg)

(***************************************************************************)
(* Python values.                                                          *)
(***************************************************************************)
None == <<"None">>

Truthy(x) == x # None /\ x # <<>>

\* x or d
Or(x, d) == IF Truthy(x) THEN x ELSE d

RECURSIVE LStrip(_)
LStrip(s) == IF s # <<>> /\ Head(s) = " " THEN LStrip(Tail(s)) ELSE s

RECURSIVE RStrip(_)
RStrip(s) ==
    IF s # <<>> /\ s[Len(s)] = " " THEN RStrip(SubSeq(s, 1, Len(s) - 1)) ELSE s

\* str.strip()
Strip(s) == RStrip(LStrip(s))

SetMax(S) == CHOOSE x \in S : \A y \in S : y <= x

(***************************************************************************)
(* Persistence: SQLite tables behind the SQLAlchemy session.               *)
(***************************************************************************)
\* INTEGER PRIMARY KEY without AUTOINCREMENT: one more than the largest key
NewId(rows) == IF DOMAIN rows = {} THEN 1 ELSE SetMax(DOMAIN rows) + 1

Put(rows, id, row) == [i \in DOMAIN rows \cup {id} |-> IF i = id THEN row ELSE rows[i]]

Drop(rows, ids) == [i \in DOMAIN rows \ ids |-> rows[i]]

\* a lookup that finds no row
TeamByNameNone(tms, name) == 0

\* Team.query.filter_by(name=name).first(): 0 stands for no row
TeamByName(tms, name) ==
    IF \E i \in DOMAIN tms : tms[i].name = name
    THEN CHOOSE i \in DOMAIN tms :
             /\ tms[i].name = name
             /\ \A j \in DOMAIN tms : tms[j].name = name => i <= j
    ELSE 0

\* the rows of members that reference the team
MemberIdsOf(mbs, tid) == {m \in DOMAIN mbs : mbs[m].team_id = tid}

\* db.session.commit() / db.session.rollback(): s is the session's view of the
\* tables inside the open transaction, d the committed content
Commit(d, s) == s

\* a rollback that leaves the flushed changes in place
RollbackKeepsFlushed(d, s) == s

Rollback(d, s) == d

\* what a handler returns
Resp(op, status, error) ==
    [op |-> op, status |-> status, error |-> error, teams |-> 0, members |-> 0]

Result(d, resp) == [db |-> d, resp |-> resp]

(***************************************************************************)
(* CRUD handlers.  data is the request's JSON object; a key that is absent *)
(* reads as None.                                                          *)
(***************************************************************************)
create_team(d, data) ==
    LET name == Strip(Or(data.name, <<>>))
        description == Strip(Or(data.description, <<>>))
        id == NewId(d.teams)
        s == [d EXCEPT !.teams = Put(d.teams, id,
                  [name |-> name, description |-> description])]
    IN  IF ~Truthy(name)
        THEN Result(d, Resp("create_team", 400, "name_required"))
        ELSE IF TeamByName(d.teams, name) # 0
        THEN Result(d, Resp("create_team", 400, "name_exists"))
        ELSE Result(Commit(d, s), Resp("create_team", 201, ""))

update_team(d, team_id, data) ==
    IF team_id \notin DOMAIN d.teams
    THEN Result(d, Resp("update_team", 404, "not_found"))
    ELSE
    LET team == d.teams[team_id]
        name == Strip(Or(data.name, team.name))
        description == Strip(Or(data.description, <<>>))
        s == [d EXCEPT !.teams[team_id] =
                  [name |-> name, description |-> description]]
    IN  IF ~Truthy(name)
        THEN Result(d, Resp("update_team", 400, "name_required"))
        ELSE IF \E i \in DOMAIN d.teams : i # team_id /\ d.teams[i].name = name
        THEN Result(d, Resp("update_team", 400, "name_exists"))
        ELSE Result(Commit(d, s), Resp("update_team", 200, ""))

\* a delete that leaves the team's members behind
delete_team_no_cascade(d, team_id) ==
    IF team_id \notin DOMAIN d.teams
    THEN Result(d, Resp("delete_team", 404, "not_found"))
    ELSE Result([d EXCEPT !.teams = Drop(d.teams, {team_id})],
                Resp("delete_team", 200, ""))

\* a delete whose cascade is not restricted to the team
delete_team_all_members(d, team_id) ==
    IF team_id \notin DOMAIN d.teams
    THEN Result(d, Resp("delete_team", 404, "not_found"))
    ELSE Result([teams |-> Drop(d.teams, {team_id}), members |-> <<>>],
                Resp("delete_team", 200, ""))

\* cascade="all, delete-orphan": the session deletes the team's members with it
delete_team(d, team_id) ==
    IF team_id \notin DOMAIN d.teams
    THEN Result(d, Resp("delete_team", 404, "not_found"))
    ELSE
    LET s == [teams |-> Drop(d.teams, {team_id}),
              members |-> Drop(d.members, MemberIdsOf(d.members, team_id))]
    IN  Result(Commit(d, s), Resp("delete_team", 200, ""))

add_member(d, team_id, data, now) ==
    IF team_id \notin DOMAIN d.teams
    THEN Result(d, Resp("add_member", 404, "not_found"))
    ELSE
    LET name == Strip(Or(data.name, <<>>))
        email == Strip(Or(data.email, <<>>))
        role == Strip(Or(data.role, <<>>))
        s == [d EXCEPT !.members = Put(d.members, NewId(d.members),
                  [name |-> name, email |-> email, role |-> role,
                   joined_at |-> now, team_id |-> team_id])]
    IN  IF ~Truthy(name) \/ ~Truthy(email)
        THEN Result(d, Resp("add_member", 400, "name_email_required"))
        ELSE Result(Commit(d, s), Resp("add_member", 201, ""))

update_member(d, member_id, data) ==
    IF member_id \notin DOMAIN d.members
    THEN Result(d, Resp("update_member", 404, "not_found"))
    ELSE
    LET member == d.members[member_id]
        name == Strip(Or(data.name, member.name))
        email == Strip(Or(data.email, member.email))
        role == Strip(Or(data.role, <<>>))
        s == [d EXCEPT !.members[member_id] =
                  [member EXCEPT !.name = name, !.email = email, !.role = role]]
    IN  IF ~Truthy(name) \/ ~Truthy(email)
        THEN Result(d, Resp("update_member", 400, "name_email_required"))
        ELSE Result(Commit(d, s), Resp("update_member", 200, ""))

delete_member(d, member_id) ==
    IF member_id \notin DOMAIN d.members
    THEN Result(d, Resp("delete_member", 404, "not_found"))
    ELSE
    LET s == [d EXCEPT !.members = Drop(d.members, {member_id})]
    IN  Result(Commit(d, s), Resp("delete_member", 200, ""))

(***************************************************************************)
(* The remote API.  A listing is one paginated endpoint: a function from   *)
(* the URL tokens of its pages to the response served there.  A response   *)
(* has a status (0: requests.get raised RequestException), a JSON payload  *)
(* (a list, or else a single object), the message of an error body and the *)
(* Link header, already cut at its commas into parts; a part is a sequence *)
(* of tokens, as in  <url>; rel="next".                                    *)
(***************************************************************************)
RelNext == "rel=\"next\""
RelPrev == "rel=\"prev\""
RelLast == "rel=\"last\""

UrlTok(i) == "page" \o ToString(i)

LinkPart(i, rel) == <<"<", UrlTok(i), ">", ";", rel>>

\* f"{base_url}{path}"
FirstUrl == <<UrlTok(1)>>

\* str.find, as a Python index: -1 when absent
Find(s, c) ==
    IF \E i \in 1..Len(s) : s[i] = c
    THEN (CHOOSE i \in 1..Len(s) : s[i] = c /\ \A j \in 1..(i - 1) : s[j] # c) - 1
    ELSE -1

\* s[start:end] for start >= 0
PySlice(s, start, end) ==
    LET e == IF end < 0 THEN (IF Len(s) + end < 0 THEN 0 ELSE Len(s) + end)
             ELSE IF end > Len(s) THEN Len(s) ELSE end
    IN  IF start >= e THEN <<>> ELSE SubSeq(s, start + 1, e)

\* requests.get(url, ...)
Unreachable == [status |-> 0, is_list |-> TRUE, payload |-> <<>>,
                message |-> "", link |-> <<>>]

Fetch(listing, url) ==
    IF Len(url) = 1 /\ url[1] \in DOMAIN listing THEN listing[url[1]] ELSE Unreachable

\* a parser that takes the first link, whatever its rel
NextUrlAnyRel(parts) ==
    IF parts = <<>> THEN None
    ELSE PySlice(Head(parts), Find(Head(parts), "<") + 1, Find(Head(parts), ">"))

\* the for loop over the parts of the Link header, up to its break
RECURSIVE NextUrl(_)
NextUrl(parts) ==
    IF parts = <<>> THEN None
    ELSE LET part == Head(parts)
         IN  IF \E i \in 1..Len(part) : part[i] = RelNext
             THEN PySlice(part, Find(part, "<") + 1, Find(part, ">"))
             ELSE NextUrl(Tail(parts))

\* the locals of github_paginated_get before its first iteration
PgStart(listing) ==
    [listing |-> listing, pc |-> "loop", url |-> FirstUrl, results |-> <<>>,
     first_request |-> TRUE, requests |-> <<>>, error |-> ""]

\* one iteration of  while url:
PgIterate(st, params) ==
    LET query_params == IF st.first_request THEN params ELSE None
        response == Fetch(st.listing, st.url)
        sent == Append(st.requests, [url |-> st.url, params |-> query_params])
        next_url == NextUrl(response.link)
    IN  IF response.status = 0
        THEN [st EXCEPT !.pc = "raised", !.error = "unreachable",
                        !.first_request = FALSE, !.requests = sent]
        ELSE IF response.status >= 400
        THEN [st EXCEPT !.pc = "raised", !.error = response.message,
                        !.first_request = FALSE, !.requests = sent]
        ELSE [st EXCEPT
                 !.results = IF response.is_list THEN @ \o response.payload
                             ELSE Append(@, response.payload),
                 !.url = next_url,
                 !.pc = IF Truthy(next_url) THEN "loop" ELSE "returned",
                 !.first_request = FALSE,
                 !.requests = sent]

RECURSIVE PgRun(_, _)
PgRun(st, params) == IF st.pc = "loop" THEN PgRun(PgIterate(st, params), params) ELSE st

github_paginated_get(listing, params) == PgRun(PgStart(listing), params)

(***************************************************************************)
(* sync_github.  remote is the API as it answers during one invocation:    *)
(* remote.teams is the listing /orgs/{org}/teams, remote.members[slug] the *)
(* listing /orgs/{org}/teams/{slug}/members.  A team payload is            *)
(* [name, description, slug], each None when the key is absent (for slug:  *)
(* team_payload['slug'] raises KeyError); a member payload is              *)
(* [login, name, role].                                                    *)
(***************************************************************************)
NoReply == "@users.noreply.github.com"

\* the loop over members_payload; acc = [s, members]
RECURSIVE ImportMembers(_, _, _, _)
ImportMembers(acc, payloads, tid, now) ==
    IF payloads = <<>> THEN acc
    ELSE LET member_payload == Head(payloads)
             login == member_payload.login
             row == [name |-> Or(member_payload.name, login),
                     email |-> Append(login, NoReply),
                     role |-> Or(member_payload.role, <<>>),
                     joined_at |-> now,
                     team_id |-> tid]
         IN  IF ~Truthy(login)
             THEN ImportMembers(acc, Tail(payloads), tid, now)
             ELSE ImportMembers(
                      [s |-> [acc.s EXCEPT !.members =
                                  Put(acc.s.members, NewId(acc.s.members), row)],
                       members |-> acc.members + 1],
                      Tail(payloads), tid, now)

\* an import that merges instead of replacing
BulkDeleteNothing(s, tid) == s

\* Member.query.filter_by(team_id=team.id).delete(synchronize_session=False)
BulkDeleteMembers(s, tid) ==
    [s EXCEPT !.members = Drop(s.members, MemberIdsOf(s.members, tid))]

\* the loop over teams_payload inside the try;
\* acc = [s, teams, members, error], error "" while nothing was raised
RECURSIVE ImportTeams(_, _, _, _)
ImportTeams(acc, payloads, remote, now) ==
    IF payloads = <<>> \/ acc.error # "" THEN acc
    ELSE
    LET team_payload == Head(payloads)
        team_name == team_payload.name
        found == TeamByName(acc.s.teams, team_name)
        tid == IF found # 0 THEN found ELSE NewId(acc.s.teams)
        s1 == [acc.s EXCEPT !.teams = Put(acc.s.teams, tid,
                   [name |-> team_name,
                    description |-> Or(team_payload.description, <<>>)])]
        s2 == BulkDeleteMembers(s1, tid)
        fetched == github_paginated_get(remote.members[team_payload.slug],
                                        "per_page=100&role=all")
        added == ImportMembers([s |-> s2, members |-> acc.members],
                               fetched.results, tid, now)
    IN  IF ~Truthy(team_name)
        THEN ImportTeams(acc, Tail(payloads), remote, now)
        ELSE IF team_payload.slug = None
        THEN [acc EXCEPT !.s = s2, !.error = "import_failed"]
        ELSE IF fetched.pc = "raised"
        THEN [acc EXCEPT !.s = s2, !.error = fetched.error]
        ELSE ImportTeams(
                 [s |-> added.s, teams |-> acc.teams + 1,
                  members |-> added.members, error |-> ""],
                 Tail(payloads), remote, now)

sync_github(d, organization, cfg, remote, now) ==
    LET org == Strip(Or(organization, cfg))
        teams_payload == github_paginated_get(remote.teams, "per_page=100")
        done == ImportTeams([s |-> d, teams |-> 0, members |-> 0, error |-> ""],
                            teams_payload.results, remote, now)
    IN  IF ~Truthy(org)
        THEN Result(d, Resp("sync_github", 400, "org_required"))
        ELSE IF teams_payload.pc = "raised"
        THEN Result(d, Resp("sync_github", 400, teams_payload.error))
        ELSE IF done.error # ""
        THEN Result(Rollback(d, done.s), Resp("sync_github", 400, done.error))
        ELSE Result(Commit(d, done.s),
                    [Resp("sync_github", 200, "") EXCEPT
                         !.teams = done.teams, !.members = done.members])

(***************************************************************************)
(* Building blocks of the inputs.                                          *)
(***************************************************************************)
Ids(n) == 1..(n + 1)

Page(payload) ==
    [status |-> 200, is_list |-> TRUE, payload |-> payload, message |-> "", link |-> <<>>]

ErrorPage(status, message) ==
    [status |-> status, is_list |-> FALSE, payload |-> <<>>, message |-> message,
     link |-> <<>>]

\* the Link header of page i of n pages served in order
LinkOf(i, n) ==
    (IF i > 1 THEN <<LinkPart(i - 1, RelPrev)>> ELSE <<>>)
    \o (IF i < n THEN <<LinkPart(i + 1, RelNext), LinkPart(n, RelLast)>> ELSE <<>>)

\* a listing that serves the given pages in order
Paged(pages) ==
    [u \in {UrlTok(i) : i \in 1..Len(pages)} |->
        LET i == CHOOSE k \in 1..Len(pages) : UrlTok(k) = u
        IN  [pages[i] EXCEPT !.link = LinkOf(i, Len(pages))]]

SeqsUpTo(S, n) == UNION {[1..k -> S] : k \in 0..n}

TeamPayload(name, description, slug) ==
    [name |-> name, description |-> description, slug |-> slug]

Nameless == TeamPayload(None, <<"d">>, <<"s1">>)

\* a team listing with one page per team payload of q, each page listing a
\* nameless team before it
TeamsListing(q) ==
    IF q = <<>> THEN Paged(<<Page(<<>>)>>)
    ELSE Paged([i \in 1..Len(q) |-> Page(<<Nameless, q[i]>>)])

JsonTeam(name, description) == [name |-> name, description |-> description]

JsonMember(name, email, role) == [name |-> name, email |-> email, role |-> role]

MemberX == [login |-> <<"x">>, name |-> None, role |-> None]
MemberY == [login |-> <<"y">>, name |-> <<" ", "z">>, role |-> <<"r">>]
MemberNoLogin == [login |-> None, name |-> <<"w">>, role |-> None]

\* the remotes whose team listing is a sequence of at most n of the payloads,
\* and the two whose team listing fails
RemotesOf(payloads, remote_members, n) ==
    {[teams |-> TeamsListing(q), members |-> remote_members] :
        q \in SeqsUpTo(payloads, n)}
    \cup {[teams |-> Paged(<<ErrorPage(404, "Not Found")>>), members |-> remote_members],
          [teams |-> Paged(<<ErrorPage(0, "")>>), members |-> remote_members]}

(***************************************************************************)
(* Actions: one per handler.                                               *)
(***************************************************************************)
PgIdle == [pc |-> "idle"]

\* the primary keys stay within the bounds of the model
InBounds(d) ==
    /\ DOMAIN d.teams \subseteq 1..MaxTeams
    /\ DOMAIN d.members \subseteq 1..MaxMembers

Apply(r) ==
    /\ InBounds(r.db)
    /\ db' = r.db
    /\ last' = r.resp
    /\ UNCHANGED <<config, pg>>

CreateTeam(data) == Apply(create_team(db, data))

UpdateTeam(team_id, data) == Apply(update_team(db, team_id, data))

DeleteTeam(team_id) == Apply(delete_team(db, team_id))

AddMember(team_id, data, now) == Apply(add_member(db, team_id, data, now))

UpdateMember(member_id, data) == Apply(update_member(db, member_id, data))

DeleteMember(member_id) == Apply(delete_member(db, member_id))

SyncGithub(organization, remote, now) ==
    Apply(sync_github(db, organization, config, remote, now))

InitWith(org) ==
    /\ db = [teams |-> <<>>, members |-> <<>>]
    /\ config = org
    /\ last = Resp("init", 0, "")
    /\ pg = PgIdle

(***************************************************************************)
(* Spec: every handler, with team names that collide between requests and  *)
(* the import, and an import that fails after its bulk delete;             *)
(* GITHUB_ORG is set.                                                      *)
(***************************************************************************)
TeamData == {JsonTeam(n, None) : n \in {None, <<" ", "a">>, <<"b">>, <<"c">>}}

TeamUpdates == {JsonTeam(n, None) : n \in {None, <<"a">>, <<"b", " ">>}}

MemberData == {JsonMember(<<"n">>, <<"e">>, None), JsonMember(<<"n">>, None, None)}

MemberUpdates == {JsonMember(None, None, None)}

RemoteMembers == <<"s1">> :> Paged(<<Page(<<MemberX>>)>>)

Remotes ==
    RemotesOf({TeamPayload(<<"a">>, None, <<"s1">>),
               TeamPayload(<<"b">>, None, None)},
              RemoteMembers, MaxRemoteTeams)

Init == InitWith(<<"o">>)

Next ==
    \/ \E data \in TeamData : CreateTeam(data)
    \/ \E team_id \in Ids(MaxTeams), data \in TeamUpdates : UpdateTeam(team_id, data)
    \/ \E team_id \in Ids(MaxTeams) : DeleteTeam(team_id)
    \/ \E team_id \in Ids(MaxTeams), data \in MemberData : AddMember(team_id, data, 1)
    \/ \E member_id \in Ids(MaxMembers), data \in MemberUpdates :
           UpdateMember(member_id, data)
    \/ \E member_id \in Ids(MaxMembers) : DeleteMember(member_id)
    \/ \E remote \in Remotes : SyncGithub(None, remote, 1)

Spec == Init /\ [][Next]_vars

(***************************************************************************)
(* Claims checked under Spec.                                              *)
(***************************************************************************)
Succeeded(op) == last.op = op /\ last.status \in {200, 201}

\* C1: in every reachable state no two stored teams have the same name.
TeamNamesUnique ==
    \A i, j \in DOMAIN db.teams : i # j => db.teams[i].name # db.teams[j].name

\* a sync that imported two remote teams of one name while another team is stored
TeamNamesUniqueWitness ==
    /\ Succeeded("sync_github")
    /\ last.teams = 2
    /\ Cardinality(DOMAIN db.teams) = 2
    /\ \E i \in DOMAIN db.teams : db.teams[i].name = <<"b">>

\* C2: a successful Delete Team removes that team and exactly the members that
\* reference it, and a successful Delete Member removes exactly that member;
\* every other row stays as it was.
DeleteRemovesExactly ==
    [][/\ \A id \in DOMAIN db.teams :
              DeleteTeam(id) =>
                  /\ DOMAIN db'.teams = DOMAIN db.teams \ {id}
                  /\ \A t \in DOMAIN db'.teams : db'.teams[t] = db.teams[t]
                  /\ DOMAIN db'.members =
                         {m \in DOMAIN db.members : db.members[m].team_id # id}
                  /\ \A m \in DOMAIN db'.members : db'.members[m] = db.members[m]
       /\ \A mid \in DOMAIN db.members :
              DeleteMember(mid) =>
                  /\ db'.teams = db.teams
                  /\ DOMAIN db'.members = DOMAIN db.members \ {mid}
                  /\ \A m \in DOMAIN db'.members : db'.members[m] = db.members[m]
      ]_vars

\* a team was deleted and a member of another team is still stored
DeleteRemovesExactlyWitness ==
    /\ Succeeded("delete_team")
    /\ DOMAIN db.members # {}
    /\ DOMAIN db.teams # {}

\* C6: in every reachable state every stored member references a stored team.
MembersReferenceTeams ==
    \A m \in DOMAIN db.members : db.members[m].team_id \in DOMAIN db.teams

\* a sync was rolled back after its bulk delete while members are stored
MembersReferenceTeamsWitness ==
    /\ last.op = "sync_github"
    /\ last.error = "import_failed"
    /\ Cardinality(DOMAIN db.members) = 2

(***************************************************************************)
(* SpecSync: the import against remotes whose team listing repeats a name  *)
(* and whose member listing may fail on its second page; GITHUB_ORG is     *)
(* unset, so the organization comes from the argument or not at all.       *)
(***************************************************************************)
TeamDataSync == {JsonTeam(n, None) : n \in {<<"a">>, <<"b">>}}

TeamUpdatesSync == {JsonTeam(None, None)}

MemberDataSync == {JsonMember(<<"n">>, <<"e">>, None)}

MemberUpdatesSync == {JsonMember(None, None, None)}

\* a remote that answers no request
Offline == [teams |-> Paged(<<ErrorPage(0, "")>>), members |-> <<>>]

RemoteMembersSync ==
    (<<"s1">> :> Paged(<<Page(<<MemberX>>), Page(<<MemberY>>)>>))
    @@ (<<"s2">> :> Paged(<<Page(<<MemberNoLogin, MemberY>>)>>))
    @@ (<<"s3">> :> Paged(<<Page(<<MemberX>>), ErrorPage(403, "Forbidden")>>))

TeamPayloadsSync ==
    {TeamPayload(<<"a">>, <<"d">>, <<"s1">>),
     TeamPayload(<<"a">>, None, <<"s2">>),
     TeamPayload(<<"a">>, <<"d">>, <<"s3">>)}

RemotesSync == RemotesOf(TeamPayloadsSync, RemoteMembersSync, MaxRemoteTeams)

InitSync == InitWith(<<>>)

NextSync ==
    \/ \E data \in TeamDataSync : CreateTeam(data)
    \/ \E team_id \in Ids(MaxTeams), data \in TeamUpdatesSync : UpdateTeam(team_id, data)
    \/ \E team_id \in Ids(MaxTeams) : DeleteTeam(team_id)
    \/ \E team_id \in Ids(MaxTeams), data \in MemberDataSync :
           AddMember(team_id, data, 1)
    \/ \E member_id \in Ids(MaxMembers), data \in MemberUpdatesSync :
           UpdateMember(member_id, data)
    \/ \E member_id \in Ids(MaxMembers) : DeleteMember(member_id)
    \/ \E remote \in RemotesSync : SyncGithub(<<" ", "o">>, remote, 1)
    \/ \E remote \in {Offline} : SyncGithub(None, remote, 1)

SpecSync == InitSync /\ [][NextSync]_vars

(***************************************************************************)
(* Claims checked under SpecSync.  They speak of what one more invocation  *)
(* of sync_github does to the reachable state it starts from.              *)
(***************************************************************************)
OrgArg == <<" ", "o">>

SyncOf(d, remote) == sync_github(d, OrgArg, config, remote, 1)

\* the team payloads the remote lists, page after page
Listed(remote) == github_paginated_get(remote.teams, "per_page=100").results

Named(remote) == {i \in 1..Len(Listed(remote)) : Truthy(Listed(remote)[i].name)}

RECURSIVE Ascending(_)
Ascending(S) ==
    IF S = {} THEN <<>>
    ELSE LET m == CHOOSE x \in S : \A y \in S : x <= y
         IN  <<m>> \o Ascending(S \ {m})

\* name, email and role of the team's members, in the order of their keys
MemberContents(d, tid) ==
    LET ids == Ascending({m \in DOMAIN d.members : d.members[m].team_id = tid})
    IN  [k \in 1..Len(ids) |->
            <<d.members[ids[k]].name, d.members[ids[k]].email, d.members[ids[k]].role>>]

HasLogin(p) == p.login # None /\ p.login # <<>>

\* what the member listing of a team payload should become
ExpectedMembers(remote, payload) ==
    LET listed == SelectSeq(
            github_paginated_get(remote.members[payload.slug], "").results, HasLogin)
    IN  [k \in 1..Len(listed) |->
            <<IF listed[k].name \in {None, <<>>} THEN listed[k].login ELSE listed[k].name,
              listed[k].login \o <<NoReply>>,
              IF listed[k].role = None THEN <<>> ELSE listed[k].role>>]

TeamsNamed(d, name) == {t \in DOMAIN d.teams : d.teams[t].name = name}

\* the teams with their descriptions and member contents, keys left out
Contents(d) ==
    {<<d.teams[t].name, d.teams[t].description, MemberContents(d, t)>> :
        t \in DOMAIN d.teams}

\* C3: an invocation that ends in an error leaves teams and members exactly as
\* they were, whatever it had flushed; one that succeeds has reconciled every
\* named team of the listing.
SyncAllOrNothing ==
    /\ LET r == sync_github(db, None, config, Offline, 1)
       IN  r.resp.status # 200 /\ r.db = db
    /\ \A remote \in RemotesSync :
           LET r == SyncOf(db, remote)
           IN  IF r.resp.status = 200
               THEN r.resp.teams = Cardinality(Named(remote))
               ELSE r.db = db

\* the member listing failed on its second page, after team "a" was found, its
\* description overwritten and its members bulk-deleted; the stored team "a"
\* has its own description and its manually added member
SyncAllOrNothingWitness ==
    /\ last.op = "sync_github"
    /\ last.error = "Forbidden"
    /\ \E t \in DOMAIN db.teams :
           /\ db.teams[t] = [name |-> <<"a">>, description |-> <<>>]
           /\ MemberContents(db, t) = << <<(<<"n">>), (<<"e">>), (<<>>)>> >>

\* C7 as stated: after a successful sync the members of the local team matched
\* by a remote team are exactly those created from that remote team's listing.
SyncReplacesWithEachListing ==
    [][\A remote \in RemotesSync :
           (SyncGithub(OrgArg, remote, 1) /\ last'.status = 200) =>
               \A i \in Named(remote) :
                   \A t \in TeamsNamed(db', Listed(remote)[i].name) :
                       MemberContents(db', t)
                           = ExpectedMembers(remote, Listed(remote)[i])
      ]_vars

\* C7, amended: after a successful sync every named remote team has a local
\* team of its name, whose members are exactly those created from the listing
\* of the last remote team of that name; a second successful sync against the
\* same remote leaves the same teams, descriptions and member contents.
SyncReplacesWithLastListing ==
    \A remote \in RemotesSync :
        LET r == SyncOf(db, remote)
            again == SyncOf(r.db, remote)
            listed == Listed(remote)
            named == {i \in 1..Len(listed) : Truthy(listed[i].name)}
        IN  r.resp.status = 200 =>
                /\ \A i \in named :
                       /\ TeamsNamed(r.db, listed[i].name) # {}
                       /\ (\A j \in named : j > i => listed[j].name # listed[i].name)
                          => \A t \in TeamsNamed(r.db, listed[i].name) :
                                 MemberContents(r.db, t)
                                     = ExpectedMembers(remote, listed[i])
                /\ again.resp.status = 200
                /\ Contents(again.db) = Contents(r.db)

\* a sync imported two remote teams named "a", the first with two members,
\* and the stored team "a" holds the one member of the second
SyncReplacesWitness ==
    /\ Succeeded("sync_github")
    /\ last.teams = 2
    /\ last.members = 3
    /\ \E t \in DOMAIN db.teams :
           /\ db.teams[t].name = <<"a">>
           /\ MemberContents(db, t) = << <<(<<" ", "z">>), (<<"y", NoReply>>), (<<"r">>)>> >>

\* C10: the summary of a successful sync counts the distinct local teams the
\* invocation created or updated and the members those teams hold afterwards.
SummaryMatchesStore ==
    [][\A remote \in RemotesSync :
           (SyncGithub(OrgArg, remote, 1) /\ last'.status = 200) =>
               LET touched == UNION {TeamsNamed(db', Listed(remote)[i].name) :
                                        i \in Named(remote)}
               IN  /\ last'.teams = Cardinality(touched)
                   /\ last'.members =
                          Cardinality({m \in DOMAIN db'.members :
                                          db'.members[m].team_id \in touched})
      ]_vars

(***************************************************************************)
(* SpecPg: one call of github_paginated_get, one request per step, against *)
(* every listing of at most MaxPages pages.  A page is a list of two       *)
(* items, a single object, an API error or unreachable; its Link header is *)
(* the one of its place in the listing, absent, or points back to the      *)
(* first page.                                                             *)
(***************************************************************************)
Params == "per_page=100"

PageKinds == {"list", "object", "error", "unreachable"}

LinkKinds == {"chain", "none", "back"}

PgPage(i, n, kind, link) ==
    [status |-> IF kind = "error" THEN 404 ELSE IF kind = "unreachable" THEN 0 ELSE 200,
     is_list |-> kind = "list",
     payload |-> IF kind = "list" THEN <<10 * i + 1, 10 * i + 2>> ELSE 10 * i,
     message |-> IF kind = "error" THEN "Not Found" ELSE "",
     link |-> IF link = "chain" THEN LinkOf(i, n)
              ELSE IF link = "back" THEN <<LinkPart(1, RelNext)>>
              ELSE <<>>]

PgListings ==
    UNION {
        {[u \in {UrlTok(i) : i \in 1..n} |->
             LET i == CHOOSE k \in 1..n : UrlTok(k) = u
             IN  PgPage(i, n, kinds[i], links[i])] :
            kinds \in [1..n -> PageKinds], links \in [1..n -> LinkKinds]} :
        n \in 1..MaxPages}

InitPg ==
    /\ db = [teams |-> <<>>, members |-> <<>>]
    /\ config = <<>>
    /\ last = Resp("init", 0, "")
    /\ pg \in {PgStart(listing) : listing \in PgListings}

PgRequest ==
    /\ pg.pc = "loop"
    /\ Len(pg.requests) < MaxRequests
    /\ pg' = PgIterate(pg, Params)
    /\ UNCHANGED <<db, config, last>>

NextPg == PgRequest

SpecPg == InitPg /\ [][NextPg]_vars /\ WF_vars(NextPg)

(***************************************************************************)
(* Claim checked under SpecPg.                                             *)
(***************************************************************************)
\* the page a page's rel="next" link names, "" when it has none
NextPageOf(page) ==
    IF \E k \in 1..Len(page.link) : page.link[k][5] = RelNext
    THEN LET k == CHOOSE k \in 1..Len(page.link) :
                      /\ page.link[k][5] = RelNext
                      /\ \A j \in 1..(k - 1) : page.link[j][5] # RelNext
         IN  page.link[k][2]
    ELSE ""

\* the pages from u on along the next links, as far as n requests reach; the
\* chain ends after a page without a next link and after a page that fails
RECURSIVE ChainFrom(_, _, _)
ChainFrom(listing, u, n) ==
    IF n = 0 \/ u = "" THEN <<>>
    ELSE IF listing[u].status # 200 THEN <<u>>
    ELSE <<u>> \o ChainFrom(listing, NextPageOf(listing[u]), n - 1)

Chain(listing) == ChainFrom(listing, UrlTok(1), MaxRequests)

ChainIsFinite(listing) == Len(Chain(listing)) < MaxRequests

RECURSIVE ItemsAlong(_, _)
ItemsAlong(listing, urls) ==
    IF urls = <<>> THEN <<>>
    ELSE LET page == listing[Head(urls)]
         IN  (IF page.status # 200 THEN <<>>
              ELSE IF page.is_list THEN page.payload
              ELSE <<page.payload>>)
             \o ItemsAlong(listing, Tail(urls))

PgReturned == pg.pc = "returned"

\* C8: the requests made so far are the first pages of the chain of next
\* links, each requested once and in order, only the first with the query
\* parameters; the results are the items of the requested pages in order; on
\* return every page of the chain was requested; and the call ends whenever
\* the chain is finite.
PaginationInOrderOnce ==
    /\ [](pg.pc # "idle" =>
            LET chain == Chain(pg.listing)
                n == Len(pg.requests)
            IN  /\ n <= Len(chain)
                /\ \A k \in 1..n :
                       /\ pg.requests[k].url = <<chain[k]>>
                       /\ pg.requests[k].params = IF k = 1 THEN Params ELSE None
                /\ pg.results
                       = ItemsAlong(pg.listing, SubSeq(chain, 1, n))
                /\ ChainIsFinite(pg.listing) =>
                       \A j, k \in 1..n : pg.requests[j].url = pg.requests[k].url => j = k
                /\ PgReturned => n = Len(chain))
    /\ [](ChainIsFinite(pg.listing) => <>(pg.pc \in {"returned", "raised"}))

\* a call returned after three requests, the last page being a single object
PaginationInOrderOnceWitness ==
    /\ PgReturned
    /\ Len(pg.requests) = 3
    /\ pg.results = <<11, 12, 21, 22, 30>>

(***************************************************************************)
(* SpecCrud: the CRUD handlers with absent, empty, blank, padded and       *)
(* differently cased fields, next to an import of a team and a member      *)
(* whose remote names are padded.                                          *)
(***************************************************************************)
TeamDataCrud ==
    {JsonTeam(n, None) : n \in {None, <<>>, <<" ">>, <<" ", "a", " ">>, <<"A">>}}

TeamUpdatesCrud ==
    {JsonTeam(n, None) : n \in {None, <<>>, <<" ">>, <<"a">>, <<" ", "a">>}}

MemberDataCrud ==
    {JsonMember(n, e, None) : n \in {None, <<" ">>, <<"n">>}, e \in {<<>>, <<"e", " ">>}}

MemberUpdatesCrud ==
    {JsonMember(n, e, r) : n \in {None, <<>>, <<" ">>}, e \in {None, <<>>, <<" ">>},
                           r \in {None, <<"r">>}}

\* datetime.utcnow() at the insert
Times == {1, 2}

RemotesCrud ==
    RemotesOf({TeamPayload(<<" ", "a">>, None, <<"s1">>)},
              <<"s1">> :> Paged(<<Page(<<MemberY>>)>>), 1)

InitCrud == InitWith(<<"o">>)

NextCrud ==
    \/ \E data \in TeamDataCrud : CreateTeam(data)
    \/ \E team_id \in Ids(MaxTeams), data \in TeamUpdatesCrud : UpdateTeam(team_id, data)
    \/ \E team_id \in Ids(MaxTeams) : DeleteTeam(team_id)
    \/ \E team_id \in Ids(MaxTeams), data \in MemberDataCrud, now \in Times :
           AddMember(team_id, data, now)
    \/ \E member_id \in Ids(MaxMembers), data \in MemberUpdatesCrud :
           UpdateMember(member_id, data)
    \/ \E member_id \in Ids(MaxMembers) : DeleteMember(member_id)
    \/ \E remote \in RemotesCrud, now \in Times : SyncGithub(None, remote, now)

SpecCrud == InitCrud /\ [][NextCrud]_vars

(***************************************************************************)
(* Claims checked under SpecCrud.                                          *)
(***************************************************************************)
\* a field that is given and is empty or only whitespace
IsBlank(x) == x # None /\ \A k \in 1..Len(x) : x[k] = " "

\* x without its leading and trailing spaces
Trimmed(x) ==
    LET inked == {k \in 1..Len(x) : x[k] # " "}
    IN  IF inked = {} THEN <<>>
        ELSE SubSeq(x, CHOOSE k \in inked : \A j \in inked : k <= j,
                       CHOOSE k \in inked : \A j \in inked : j <= k)

Rejected(error) == last'.status = 400 /\ last'.error = error /\ db' = db

\* C4: Create Team and Update Team with an empty or whitespace-only name, and
\* Add Member and Update Member with an empty or whitespace-only name or
\* email, fail with a validation error and leave the store unchanged.
BlankFieldsRejected ==
    [][/\ \A data \in TeamDataCrud :
              (IsBlank(data.name) /\ CreateTeam(data)) => Rejected("name_required")
       /\ \A id \in DOMAIN db.teams : \A data \in TeamUpdatesCrud :
              (IsBlank(data.name) /\ UpdateTeam(id, data)) => Rejected("name_required")
       /\ \A id \in DOMAIN db.teams : \A data \in MemberDataCrud :
              ((IsBlank(data.name) \/ IsBlank(data.email))
                  /\ \E now \in Times : AddMember(id, data, now))
                  => Rejected("name_email_required")
       /\ \A id \in DOMAIN db.members : \A data \in MemberUpdatesCrud :
              ((IsBlank(data.name) \/ IsBlank(data.email)) /\ UpdateMember(id, data))
                  => Rejected("name_email_required")
      ]_vars

\* C5: Create Team whose trimmed name is the name of a stored team, and
\* Update Team whose trimmed new name is the name of a different stored team,
\* fail with a conflict and change nothing; Update Team that is given the
\* team's own current name succeeds.
NameConflictsRejected ==
    [][/\ \A data \in TeamDataCrud :
              (/\ data.name # None
               /\ \E t \in DOMAIN db.teams : db.teams[t].name = Trimmed(data.name)
               /\ CreateTeam(data))
                  => Rejected("name_exists")
       /\ \A id \in DOMAIN db.teams : \A data \in TeamUpdatesCrud :
              /\ (/\ data.name # None
                  /\ \E t \in DOMAIN db.teams \ {id} :
                         db.teams[t].name = Trimmed(data.name)
                  /\ data.name # db.teams[id].name
                  /\ UpdateTeam(id, data))
                     => Rejected("name_exists")
              /\ (data.name = db.teams[id].name /\ UpdateTeam(id, data))
                     => last'.status = 200
      ]_vars

\* C9: a successful Update Member that omits role leaves role empty, one that
\* omits name or email leaves the stored name or email as it was, and none
\* changes the member's key, team or join timestamp.
UpdateMemberRetains ==
    [][\A id \in DOMAIN db.members : \A data \in MemberUpdatesCrud :
           (UpdateMember(id, data) /\ last'.status = 200) =>
               /\ DOMAIN db'.members = DOMAIN db.members
               /\ data.role = None => db'.members[id].role = <<>>
               /\ data.name = None => db'.members[id].name = db.members[id].name
               /\ data.email = None => db'.members[id].email = db.members[id].email
               /\ db'.members[id].team_id = db.members[id].team_id
               /\ db'.members[id].joined_at = db.members[id].joined_at
      ]_vars

====
